---- MODULE Spec2Model ----
(***************************************************************************)
(* CSSStyleObserver (src/src/index.ts, the multi-element class of lines    *)
(* 388-587): one observer instance, the elements it is attached to, the    *)
(* per-element value cache, and the part of the host (inline style         *)
(* declarations, transitionstart listeners, computed style, event          *)
(* bubbling) that the class touches.                                       *)
(*                                                                         *)
(* The spec's observe / unobserve are the class's attach / detach.         *)
(***************************************************************************)
EXTENDS Integers, Sequences, FiniteSets, TLC

(***************************************************************************)
(* Bounds.                                                                 *)
(***************************************************************************)
NumElements == 2

(***************************************************************************)
(* The host's universe.  Elements are numbered as a heap: the parent of    *)
(* element e is e \div 2, element 1 is the root.  0 is no element.         *)
(***************************************************************************)
Elements == 1 .. NumElements

PropertyNames == {"--a", "display"}

\* Computed values are opaque strings; "" is what the host reports for a
\* property that is not set.
Values == {"", "1"}

\* JavaScript's undefined: a value that is no string of Values.
Undefined == "undefined"

\* detach() called without an argument: targetElement is undefined (falsy).
NoArgument == 0

ReturnFormat == [VALUE_ONLY |-> "value_only", OBJECT |-> "object"]

NotificationMode == [CHANGED_ONLY |-> "changed_only", ALL |-> "all"]

(***************************************************************************)
(* JavaScript objects and Maps as functions with a finite domain.          *)
(***************************************************************************)
EmptyObject == << >>

Has(obj, key) == key \in DOMAIN obj

Get(obj, key) == IF key \in DOMAIN obj THEN obj[key] ELSE Undefined

Put(obj, key, value) ==
    [k \in DOMAIN obj \cup {key} |-> IF k = key THEN value ELSE obj[k]]

Delete(obj, key) == [k \in DOMAIN obj \ {key} |-> obj[k]]

(***************************************************************************)
(* A JavaScript Set keeps its members in insertion order: a sequence       *)
(* without repetitions.                                                    *)
(***************************************************************************)
SetHas(s, x) == \E i \in 1 .. Len(s) : s[i] = x

SetAdd(s, x) == IF SetHas(s, x) THEN s ELSE Append(s, x)

SetDelete(s, x) == SelectSeq(s, LAMBDA y : y # x)

SetMembers(s) == {s[i] : i \in 1 .. Len(s)}

(***************************************************************************)
(* Host: the DOM tree, inline style declarations, computed style.          *)
(***************************************************************************)
parentNode(e) == e \div 2

RECURSIVE composedPath(_)
composedPath(target) ==
    IF target \notin Elements THEN << >>
    ELSE <<target>> \o composedPath(parentNode(target))

\* CSSStyleDeclaration.setProperty: an empty value removes the declaration.
setProperty(decls, name, value) ==
    IF value = "" THEN Delete(decls, name) ELSE Put(decls, name, value)

removeProperty(decls, name) == Delete(decls, name)

\* getComputedStyle(e).getPropertyValue(p): "" for a property that is not set.
getPropertyValue(computedStyle, propertyName) ==
    IF propertyName \in DOMAIN computedStyle THEN computedStyle[propertyName]
    ELSE ""

\* Declarations an element may carry before the observer touches it.
NoDeclarations == EmptyObject

UserDeclarations ==
    ("transition" :> "opacity 1s") @@ ("transition-behavior" :> "normal")

(***************************************************************************)
(* Array.prototype.map / join as used for the transition value.            *)
(***************************************************************************)
RECURSIVE join(_, _)
join(strings, separator) ==
    IF strings = << >> THEN ""
    ELSE IF Len(strings) = 1 THEN strings[1]
    ELSE strings[1] \o separator \o join(Tail(strings), separator)

(***************************************************************************)
(* State.                                                                  *)
(***************************************************************************)
VARIABLES
    observedVariables,   \* _observedVariables: string[]
    notificationMode,    \* _notificationMode
    returnFormat,        \* _returnFormat
    callback,            \* _callback: what the user's function does when called
    observedElements,    \* _observedElements: Set<HTMLElement>
    cachedValues,        \* _cachedValues: WeakMap<HTMLElement, CachedValues>
    style,               \* host: element -> inline declarations
    listeners,           \* host: elements with _eventHandler on transitionstart
    peer,                \* a second CSSStyleObserver: its fields and listeners
    formerlyObserved,    \* history: detached and not attached again since
    last                 \* history: the operation that led to this state

vars == <<observedVariables, notificationMode, returnFormat, callback,
          observedElements, cachedValues, style, listeners, peer,
          formerlyObserved, last>>

config == <<observedVariables, notificationMode, returnFormat, callback>>

\* What getComputedStyle may report: a value for each property the observer
\* reads (it reads no other).
ComputedStyles ==
    [{observedVariables[i] : i \in 1 .. Len(observedVariables)} -> Values]

\* The mutable state the operations work on, with the log of callback calls
\* and of getComputedStyle queries of the operation in progress, the log of
\* the operations the callback itself called, and whether an exception is on
\* its way out of the operation.  The fields and the listeners of the second
\* instance are within reach of the code as any other object of the page is.
World ==
    [observedElements |-> observedElements,
     cachedValues |-> cachedValues,
     style |-> style,
     listeners |-> listeners,
     peer |-> peer,
     calls |-> << >>,
     queried |-> << >>,
     nested |-> << >>,
     thrown |-> FALSE]

(***************************************************************************)
(* constructor                                                             *)
(***************************************************************************)
\* a ?? b
Coalesce(a, b) == IF a = Undefined THEN b ELSE a

constructor(observedVariablesArg, callbackArg, options) ==
    [observedVariables |-> observedVariablesArg,
     callback |-> callbackArg,
     notificationMode |->
         Coalesce(options.notificationMode, NotificationMode.CHANGED_ONLY),
     returnFormat |-> Coalesce(options.returnFormat, ReturnFormat.VALUE_ONLY)]

(***************************************************************************)
(* _setTargetElementStyles / _unsetTargetElementStyles                     *)
(***************************************************************************)
\* Mutant: the terms are joined by a comma without the space.
cssTransitionValue_CommaOnly ==
    join([i \in 1 .. Len(observedVariables) |->
              observedVariables[i] \o " 0.001ms step-start"], ",")

cssTransitionValue ==
    join([i \in 1 .. Len(observedVariables) |->
              observedVariables[i] \o " 0.001ms step-start"], ", ")

_setTargetElementStyles(w, targetElement) ==
    [w EXCEPT !.style[targetElement] =
        setProperty(setProperty(@, "transition", cssTransitionValue),
                    "transition-behavior", "allow-discrete")]

\* Mutant: only the transition declaration is removed.
_unsetTargetElementStyles_TransitionOnly(w, targetElement) ==
    [w EXCEPT !.style[targetElement] = removeProperty(@, "transition")]

\* Mutant: the declarations are left in place while the second instance
\* still observes the element.
_unsetTargetElementStyles_UnlessShared(w, targetElement) ==
    IF SetHas(w.peer.observedElements, targetElement) THEN w
    ELSE [w EXCEPT !.style[targetElement] =
             removeProperty(removeProperty(@, "transition"),
                            "transition-behavior")]

_unsetTargetElementStyles(w, targetElement) ==
    [w EXCEPT !.style[targetElement] =
        removeProperty(removeProperty(@, "transition"), "transition-behavior")]

addEventListener(w, targetElement) ==
    [w EXCEPT !.listeners = @ \cup {targetElement}]

\* Mutant: the listener is one function shared by all instances (a method
\* of the prototype, not bound to the instance), so that removing it removes
\* it for the second instance as well.
removeEventListener_SharedHandler(w, targetElement) ==
    [w EXCEPT !.listeners = @ \ {targetElement},
              !.peer.listeners = @ \ {targetElement}]

removeEventListener(w, targetElement) ==
    [w EXCEPT !.listeners = @ \ {targetElement}]

(***************************************************************************)
(* _processComputedStyle                                                   *)
(***************************************************************************)
\* Mutant: the previous value is looked up in the WeakMap under the property
\* name, where there is never an entry.
processProperty_WrongLookup(acc, propertyName, computedStyle, targetElement) ==
    LET currentValue == getPropertyValue(computedStyle, propertyName)
        previousValue == Undefined
        hasChanged == currentValue # previousValue
    IN  IF notificationMode = NotificationMode.ALL \/ hasChanged
        THEN [changes |->
                  Put(acc.changes, propertyName,
                      [value |-> currentValue,
                       previousValue |-> previousValue,
                       changed |-> hasChanged,
                       element |-> targetElement]),
              cachedValuesForElement |->
                  Put(acc.cachedValuesForElement, propertyName, currentValue)]
        ELSE acc

\* Mutant: the notification mode is not consulted.
processProperty_ChangedOnly(acc, propertyName, computedStyle, targetElement) ==
    LET currentValue == getPropertyValue(computedStyle, propertyName)
        previousValue == Get(acc.cachedValuesForElement, propertyName)
        hasChanged == currentValue # previousValue
    IN  IF hasChanged
        THEN [changes |->
                  Put(acc.changes, propertyName,
                      [value |-> currentValue,
                       previousValue |-> previousValue,
                       changed |-> hasChanged,
                       element |-> targetElement]),
              cachedValuesForElement |->
                  Put(acc.cachedValuesForElement, propertyName, currentValue)]
        ELSE acc

\* Mutant: a property without a cached value is taken to have been ''.
processProperty_EmptyDefault(acc, propertyName, computedStyle, targetElement) ==
    LET currentValue == getPropertyValue(computedStyle, propertyName)
        previousValue ==
            IF Has(acc.cachedValuesForElement, propertyName)
            THEN acc.cachedValuesForElement[propertyName]
            ELSE ""
        hasChanged == currentValue # previousValue
    IN  IF notificationMode = NotificationMode.ALL \/ hasChanged
        THEN [changes |->
                  Put(acc.changes, propertyName,
                      [value |-> currentValue,
                       previousValue |-> previousValue,
                       changed |-> hasChanged,
                       element |-> targetElement]),
              cachedValuesForElement |->
                  Put(acc.cachedValuesForElement, propertyName, currentValue)]
        ELSE acc

\* Mutant: the change is recorded but the cache is not written.
processProperty_NoCacheWrite(acc, propertyName, computedStyle, targetElement) ==
    LET currentValue == getPropertyValue(computedStyle, propertyName)
        previousValue == Get(acc.cachedValuesForElement, propertyName)
        hasChanged == currentValue # previousValue
    IN  IF notificationMode = NotificationMode.ALL \/ hasChanged
        THEN [changes |->
                  Put(acc.changes, propertyName,
                      [value |-> currentValue,
                       previousValue |-> previousValue,
                       changed |-> hasChanged,
                       element |-> targetElement]),
              cachedValuesForElement |-> acc.cachedValuesForElement]
        ELSE acc

\* The body of the forEach over _observedVariables, for one property name.
\* acc = [changes, cachedValuesForElement].
processProperty(acc, propertyName, computedStyle, targetElement) ==
    LET currentValue == getPropertyValue(computedStyle, propertyName)
        previousValue == Get(acc.cachedValuesForElement, propertyName)
        hasChanged == currentValue # previousValue
    IN  IF notificationMode = NotificationMode.ALL \/ hasChanged
        THEN [changes |->
                  Put(acc.changes, propertyName,
                      [value |-> currentValue,
                       previousValue |-> previousValue,
                       changed |-> hasChanged,
                       element |-> targetElement]),
              cachedValuesForElement |->
                  Put(acc.cachedValuesForElement, propertyName, currentValue)]
        ELSE acc

RECURSIVE forEachProperty(_, _, _, _)
forEachProperty(i, acc, computedStyle, targetElement) ==
    IF i > Len(observedVariables) THEN acc
    ELSE forEachProperty(i + 1,
             processProperty(acc, observedVariables[i], computedStyle,
                             targetElement),
             computedStyle, targetElement)

\* Mutant: one cache for the whole observer, kept under the element that was
\* attached first.
_processComputedStyle_SharedCache(w, computedStyle, targetElement) ==
    LET owner == w.observedElements[1]
        acc == forEachProperty(1,
                   [changes |-> EmptyObject,
                    cachedValuesForElement |-> w.cachedValues[owner]],
                   computedStyle, targetElement)
    IN  [changes |-> acc.changes,
         w |-> [w EXCEPT !.cachedValues[owner] = acc.cachedValuesForElement]]

\* Returns the changes and the world after the cache writes.  The cache entry
\* is mutated in place; without an entry the writes go to a fresh object that
\* is dropped.
_processComputedStyle(w, computedStyle, targetElement) ==
    LET hasEntry == Has(w.cachedValues, targetElement)
        cachedValuesForElement ==
            IF hasEntry THEN w.cachedValues[targetElement] ELSE EmptyObject
        acc == forEachProperty(1,
                   [changes |-> EmptyObject,
                    cachedValuesForElement |-> cachedValuesForElement],
                   computedStyle, targetElement)
    IN  [changes |-> acc.changes,
         w |-> IF hasEntry
               THEN [w EXCEPT !.cachedValues[targetElement] =
                                   acc.cachedValuesForElement]
               ELSE w]

(***************************************************************************)
(* _getFormatter, applied to the changes                                   *)
(***************************************************************************)
\* The two functions _getFormatter can return, by name.
Formatters == [OBJECT |-> "changes => changes",
               VALUE_ONLY |-> "changes => formattedChanges"]

\* Mutant: the default of the switch sits with the OBJECT case.
_getFormatter_DefaultObject(format) ==
    IF format = ReturnFormat.VALUE_ONLY THEN Formatters.VALUE_ONLY
    ELSE Formatters.OBJECT

\* switch (format): case OBJECT; case VALUE_ONLY and default.
_getFormatter(format) ==
    IF format = ReturnFormat.OBJECT THEN Formatters.OBJECT
    ELSE Formatters.VALUE_ONLY

\* Mutant: the value-only formatter copies the wrong field of the entry.
formatter_WrongField(f, changes) ==
    IF f = Formatters.OBJECT THEN changes
    ELSE [key \in DOMAIN changes |-> changes[key].previousValue]

\* formatter(changes)
formatter(f, changes) ==
    IF f = Formatters.OBJECT THEN changes
    ELSE [key \in DOMAIN changes |-> changes[key].value]

(***************************************************************************)
(* _handleUpdate                                                           *)
(***************************************************************************)
HTMLElement(element) == [type |-> "HTMLElement", element |-> element]

TransitionEvent(target) == [type |-> "TransitionEvent", target |-> target]

\* Whether the element carries exactly the declarations attach injects.
HasTrackingStyle(decls) ==
    decls = setProperty(setProperty(EmptyObject, "transition",
                                    cssTransitionValue),
                        "transition-behavior", "allow-discrete")

\* One invocation of _callback: its argument, and what the callback can see
\* of the observer and the host at that moment.
CallRecord(w, targetElement, changes) ==
    [argument |-> formatter(_getFormatter(returnFormat), changes),
     formatter |-> _getFormatter(returnFormat),
     changes |-> changes,
     element |-> targetElement,
     registered |-> SetHas(w.observedElements, targetElement),
     cached |-> Has(w.cachedValues, targetElement),
     styled |-> HasTrackingStyle(w.style[targetElement]),
     subscribed |-> targetElement \in w.listeners]

\* The behaviours of the user's function the model distinguishes: it returns,
\* it throws, or it calls back into the observer before it returns:
\* detach(element) with the element it is told about, detach(), or attach
\* with that element's parent.
Callbacks ==
    {"returns", "throws", "detach(element)", "detach()", "attach(parentNode)"}

\* What getComputedStyle reports for an element the callback attaches: none
\* of the properties has a value there.
UnsetComputedStyle ==
    [p \in {observedVariables[i] : i \in 1 .. Len(observedVariables)} |-> ""]

\* The record of one operation the callback called: the operation, its
\* argument, the callback invocation it ran in, and the state it left.
NestedRecord(op, element, c, d) ==
    [op |-> op,
     element |-> element,
     during |-> Len(c.calls),
     left |-> [observedElements |-> d.observedElements,
               cachedValues |-> d.cachedValues,
               style |-> d.style,
               listeners |-> d.listeners]]

RECURSIVE attach(_, _, _)
RECURSIVE detach(_, _)

\* this._callback(formatter(changes)): the invocation is logged; an exception
\* the function throws starts to propagate; an operation the function calls
\* runs at once, on the state the cycle has reached, before the function
\* returns.
_callback(w, targetElement, changes) ==
    LET c == [w EXCEPT !.calls = Append(@, CallRecord(w, targetElement,
                                                      changes)),
                       !.thrown = (callback = "throws")]
        Ran(op, element, d) ==
            [d EXCEPT !.nested = Append(@, NestedRecord(op, element, c, d))]
    IN  CASE callback = "detach(element)" ->
                 Ran("detach", targetElement, detach(c, targetElement))
          [] callback = "detach()" ->
                 Ran("detach", NoArgument, detach(c, NoArgument))
          [] callback = "attach(parentNode)"
                 /\ parentNode(targetElement) \in Elements ->
                 Ran("attach", parentNode(targetElement),
                     attach(c, parentNode(targetElement), UnsetComputedStyle))
          [] OTHER -> c

\* Mutant: the target is not checked against _observedElements.
_handleUpdate_Unguarded(w, e, computedStyle) ==
    LET targetElement == IF e.type = "HTMLElement" THEN e.element ELSE e.target
        q == [w EXCEPT !.queried = Append(@, targetElement)]
        r == _processComputedStyle(q, computedStyle, targetElement)
    IN  IF Cardinality(DOMAIN r.changes) = 0 THEN r.w
        ELSE _callback(r.w, targetElement, r.changes)

\* Mutant: the callback is invoked whether or not there are changes.
_handleUpdate_NoEmptyCheck(w, e, computedStyle) ==
    LET targetElement == IF e.type = "HTMLElement" THEN e.element ELSE e.target
    IN  IF SetHas(w.observedElements, targetElement)
        THEN LET q == [w EXCEPT !.queried = Append(@, targetElement)]
                 r == _processComputedStyle(q, computedStyle, targetElement)
             IN  _callback(r.w, targetElement, r.changes)
        ELSE w

\* Mutant: the guard asks whether anything is observed, not whether the
\* target is.
_handleUpdate_AnyObserved(w, e, computedStyle) ==
    LET targetElement == IF e.type = "HTMLElement" THEN e.element ELSE e.target
    IN  IF Len(w.observedElements) > 0
        THEN LET q == [w EXCEPT !.queried = Append(@, targetElement)]
                 r == _processComputedStyle(q, computedStyle, targetElement)
             IN  IF Cardinality(DOMAIN r.changes) = 0 THEN r.w
                 ELSE _callback(r.w, targetElement, r.changes)
        ELSE w

\* Mutant: an event for an element that is not observed starts observing it.
_handleUpdate_RegistersTarget(w, e, computedStyle) ==
    LET targetElement == IF e.type = "HTMLElement" THEN e.element ELSE e.target
    IN  IF SetHas(w.observedElements, targetElement)
        THEN LET q == [w EXCEPT !.queried = Append(@, targetElement)]
                 r == _processComputedStyle(q, computedStyle, targetElement)
             IN  IF Cardinality(DOMAIN r.changes) = 0 THEN r.w
                 ELSE _callback(r.w, targetElement, r.changes)
        ELSE [w EXCEPT !.observedElements = SetAdd(@, targetElement)]

\* Mutant: the callback is invoked inside a try block whose catch swallows
\* the exception.
_handleUpdate_Catches(w, e, computedStyle) ==
    LET targetElement == IF e.type = "HTMLElement" THEN e.element ELSE e.target
    IN  IF SetHas(w.observedElements, targetElement)
        THEN LET q == [w EXCEPT !.queried = Append(@, targetElement)]
                 r == _processComputedStyle(q, computedStyle, targetElement)
             IN  IF Cardinality(DOMAIN r.changes) = 0 THEN r.w
                 ELSE [_callback(r.w, targetElement, r.changes)
                           EXCEPT !.thrown = FALSE]
        ELSE w

\* Mutant: the callback is invoked first, on the cache as the cycle found it,
\* and the values read are written to the cache when it has returned.
_handleUpdate_CacheAfterCallback(w, e, computedStyle) ==
    LET targetElement == IF e.type = "HTMLElement" THEN e.element ELSE e.target
    IN  IF SetHas(w.observedElements, targetElement)
        THEN LET q == [w EXCEPT !.queried = Append(@, targetElement)]
                 r == _processComputedStyle(q, computedStyle, targetElement)
                 c == _callback([r.w EXCEPT !.cachedValues = q.cachedValues],
                                targetElement, r.changes)
             IN  IF Cardinality(DOMAIN r.changes) = 0 THEN r.w
                 ELSE [c EXCEPT !.cachedValues =
                                    Put(@, targetElement,
                                        r.w.cachedValues[targetElement])]
        ELSE w

\* Mutant: when the callback throws, the cache is put back as the cycle
\* found it before the exception leaves.
_handleUpdate_RestoresCacheOnThrow(w, e, computedStyle) ==
    LET targetElement == IF e.type = "HTMLElement" THEN e.element ELSE e.target
    IN  IF SetHas(w.observedElements, targetElement)
        THEN LET q == [w EXCEPT !.queried = Append(@, targetElement)]
                 r == _processComputedStyle(q, computedStyle, targetElement)
                 c == _callback(r.w, targetElement, r.changes)
             IN  IF Cardinality(DOMAIN r.changes) = 0 THEN r.w
                 ELSE IF c.thrown
                      THEN [c EXCEPT !.cachedValues = q.cachedValues]
                      ELSE c
        ELSE w

\* Mutant: the update runs for the element the listener was added to, not
\* for the event's target.
_handleUpdate_CurrentTarget(w, e, computedStyle) ==
    LET targetElement ==
            IF e.type = "HTMLElement" THEN e.element ELSE e.currentTarget
    IN  IF SetHas(w.observedElements, targetElement)
        THEN LET q == [w EXCEPT !.queried = Append(@, targetElement)]
                 r == _processComputedStyle(q, computedStyle, targetElement)
             IN  IF Cardinality(DOMAIN r.changes) = 0 THEN r.w
                 ELSE _callback(r.w, targetElement, r.changes)
        ELSE w

_handleUpdate(w, e, computedStyle) ==
    LET targetElement == IF e.type = "HTMLElement" THEN e.element ELSE e.target
    IN  IF SetHas(w.observedElements, targetElement)
        THEN LET q == [w EXCEPT !.queried = Append(@, targetElement)]
                 r == _processComputedStyle(q, computedStyle, targetElement)
             IN  IF Cardinality(DOMAIN r.changes) = 0 THEN r.w
                 ELSE _callback(r.w, targetElement, r.changes)
        ELSE w

(***************************************************************************)
(* attach                                                                  *)
(***************************************************************************)
\* Mutant: the initial update runs before the styles and the listener are set.
attach_UpdateFirst(w, targetElement, computedStyle) ==
    IF ~SetHas(w.observedElements, targetElement)
    THEN LET w1 == [w EXCEPT !.observedElements = SetAdd(@, targetElement)]
             w2 == [w1 EXCEPT !.cachedValues =
                                  Put(@, targetElement, EmptyObject)]
             w3 == _handleUpdate(w2, HTMLElement(targetElement), computedStyle)
             w4 == _setTargetElementStyles(w3, targetElement)
         IN  addEventListener(w4, targetElement)
    ELSE w

\* Mutant: no check that the element is not yet observed.
attach_Unguarded(w, targetElement, computedStyle) ==
    LET w1 == [w EXCEPT !.observedElements = SetAdd(@, targetElement)]
        w2 == [w1 EXCEPT !.cachedValues = Put(@, targetElement, EmptyObject)]
        w3 == _setTargetElementStyles(w2, targetElement)
        w4 == addEventListener(w3, targetElement)
    IN  _handleUpdate(w4, HTMLElement(targetElement), computedStyle)

\* Mutant: the fresh cache entry is stored before the check, so attach on an
\* observed element empties its entry.
attach_SetsCacheBeforeGuard(w, targetElement, computedStyle) ==
    LET w0 == [w EXCEPT !.cachedValues = Put(@, targetElement, EmptyObject)]
    IN  IF ~SetHas(w0.observedElements, targetElement)
        THEN LET w1 == [w0 EXCEPT !.observedElements =
                                      SetAdd(@, targetElement)]
                 w3 == _setTargetElementStyles(w1, targetElement)
                 w4 == addEventListener(w3, targetElement)
             IN  _handleUpdate(w4, HTMLElement(targetElement), computedStyle)
        ELSE w0

\* Mutant: attach leaves the first update to the first transition event.
attach_NoInitialUpdate(w, targetElement, computedStyle) ==
    IF ~SetHas(w.observedElements, targetElement)
    THEN LET w1 == [w EXCEPT !.observedElements = SetAdd(@, targetElement)]
             w2 == [w1 EXCEPT !.cachedValues =
                                  Put(@, targetElement, EmptyObject)]
             w3 == _setTargetElementStyles(w2, targetElement)
         IN  addEventListener(w3, targetElement)
    ELSE w

\* Mutant: when the initial update throws, attach undoes the registration
\* before the exception leaves.
attach_RollsBack(w, targetElement, computedStyle) ==
    IF ~SetHas(w.observedElements, targetElement)
    THEN LET w1 == [w EXCEPT !.observedElements = SetAdd(@, targetElement)]
             w2 == [w1 EXCEPT !.cachedValues =
                                  Put(@, targetElement, EmptyObject)]
             w3 == _setTargetElementStyles(w2, targetElement)
             w4 == addEventListener(w3, targetElement)
             w5 == _handleUpdate(w4, HTMLElement(targetElement),
                                 computedStyle)
         IN  IF w5.thrown
             THEN [w5 EXCEPT !.observedElements = w.observedElements,
                             !.cachedValues = w.cachedValues,
                             !.style = w.style,
                             !.listeners = w.listeners]
             ELSE w5
    ELSE w

\* Mutant: the listener is added when the initial update has returned.
attach_ListensLast(w, targetElement, computedStyle) ==
    IF ~SetHas(w.observedElements, targetElement)
    THEN LET w1 == [w EXCEPT !.observedElements = SetAdd(@, targetElement)]
             w2 == [w1 EXCEPT !.cachedValues =
                                  Put(@, targetElement, EmptyObject)]
             w3 == _setTargetElementStyles(w2, targetElement)
             w4 == _handleUpdate(w3, HTMLElement(targetElement),
                                 computedStyle)
         IN  addEventListener(w4, targetElement)
    ELSE w

attach(w, targetElement, computedStyle) ==
    IF ~SetHas(w.observedElements, targetElement)
    THEN LET w1 == [w EXCEPT !.observedElements = SetAdd(@, targetElement)]
             w2 == [w1 EXCEPT !.cachedValues =
                                  Put(@, targetElement, EmptyObject)]
             w3 == _setTargetElementStyles(w2, targetElement)
             w4 == addEventListener(w3, targetElement)
         IN  _handleUpdate(w4, HTMLElement(targetElement), computedStyle)
    ELSE w

(***************************************************************************)
(* detach                                                                  *)
(***************************************************************************)
\* Mutant: the whole cache is replaced by a new, empty one.
unwatch_ClearsCache(w, elementToUnwatch) ==
    LET w1 == _unsetTargetElementStyles(w, elementToUnwatch)
        w2 == removeEventListener(w1, elementToUnwatch)
        w3 == [w2 EXCEPT !.observedElements = SetDelete(@, elementToUnwatch)]
    IN  [w3 EXCEPT !.cachedValues = EmptyObject]

\* Mutant: the element's cache entry is left in the WeakMap.
unwatch_KeepsCache(w, elementToUnwatch) ==
    LET w1 == _unsetTargetElementStyles(w, elementToUnwatch)
        w2 == removeEventListener(w1, elementToUnwatch)
    IN  [w2 EXCEPT !.observedElements = SetDelete(@, elementToUnwatch)]

\* Mutant: the tracking style is left on the element.
unwatch_KeepsStyle(w, elementToUnwatch) ==
    LET w2 == removeEventListener(w, elementToUnwatch)
        w3 == [w2 EXCEPT !.observedElements = SetDelete(@, elementToUnwatch)]
    IN  [w3 EXCEPT !.cachedValues = Delete(@, elementToUnwatch)]

\* Mutant: removeEventListener is given a newly bound function, which is no
\* listener of the element, so the subscription stays.
unwatch_KeepsListener(w, elementToUnwatch) ==
    LET w1 == _unsetTargetElementStyles(w, elementToUnwatch)
        w3 == [w1 EXCEPT !.observedElements = SetDelete(@, elementToUnwatch)]
    IN  [w3 EXCEPT !.cachedValues = Delete(@, elementToUnwatch)]

\* Mutant: an element is given a last update before it is unwatched.
unwatch_FinalUpdate(w, elementToUnwatch) ==
    LET w0 == _handleUpdate(w, HTMLElement(elementToUnwatch),
                            UnsetComputedStyle)
        w1 == _unsetTargetElementStyles(w0, elementToUnwatch)
        w2 == removeEventListener(w1, elementToUnwatch)
        w3 == [w2 EXCEPT !.observedElements = SetDelete(@, elementToUnwatch)]
    IN  [w3 EXCEPT !.cachedValues = Delete(@, elementToUnwatch)]

\* The body of the forEach over elementsToUnwatch.
unwatch(w, elementToUnwatch) ==
    LET w1 == _unsetTargetElementStyles(w, elementToUnwatch)
        w2 == removeEventListener(w1, elementToUnwatch)
        w3 == [w2 EXCEPT !.observedElements = SetDelete(@, elementToUnwatch)]
    IN  [w3 EXCEPT !.cachedValues = Delete(@, elementToUnwatch)]

\* Mutant: the walk is by index over the live members, which move up as
\* members are deleted (an array spliced while it is iterated).
RECURSIVE forEachElement_Shifting(_, _, _, _)
forEachElement_Shifting(w, entries, alias, i) ==
    IF alias
    THEN IF i > Len(w.observedElements) THEN w
         ELSE forEachElement_Shifting(unwatch(w, w.observedElements[i]),
                                      entries, alias, i + 1)
    ELSE IF i > Len(entries) THEN w
         ELSE forEachElement_Shifting(unwatch(w, entries[i]), entries, alias,
                                      i + 1)

\* Set.prototype.forEach over a set whose members the body may delete: the
\* entries are walked by position, a deleted entry leaves a hole that is
\* skipped, and the positions of the others do not move.  entries is the
\* entry list as it was when forEach started; alias says whether the set
\* walked is _observedElements itself (so that unwatch punches the holes).
RECURSIVE forEachElement(_, _, _, _)
forEachElement(w, entries, alias, i) ==
    IF i > Len(entries) THEN w
    ELSE IF alias /\ ~SetHas(w.observedElements, entries[i])
         THEN forEachElement(w, entries, alias, i + 1)
         ELSE forEachElement(unwatch(w, entries[i]), entries, alias, i + 1)

\* Mutant: a given element is unwatched without checking that it is observed.
detach_NoMembershipCheck(w, targetElement) ==
    LET alias == targetElement = NoArgument
        elementsToUnwatch ==
            IF ~alias THEN <<targetElement>> ELSE w.observedElements
    IN  IF Len(elementsToUnwatch) = 0 THEN w
        ELSE forEachElement(w, elementsToUnwatch, alias, 1)

detach(w, targetElement) ==
    LET alias == targetElement = NoArgument
        elementsToUnwatch ==
            IF ~alias
            THEN IF SetHas(w.observedElements, targetElement)
                 THEN <<targetElement>>
                 ELSE << >>
            ELSE w.observedElements
    IN  IF Len(elementsToUnwatch) = 0 THEN w
        ELSE forEachElement(w, elementsToUnwatch, alias, 1)

(***************************************************************************)
(* The state machine.                                                      *)
(***************************************************************************)
\* The property lists an observer is constructed with: empty, one name, a
\* name listed twice, two names.
PropertyLists ==
    {<< >>, <<"--a">>, <<"--a", "--a">>, <<"--a", "display">>}

Options ==
    [notificationMode :
         {Undefined, NotificationMode.CHANGED_ONLY, NotificationMode.ALL},
     returnFormat : {Undefined, ReturnFormat.VALUE_ONLY, ReturnFormat.OBJECT}]

\* The observer's and the host's state as an operation finds it.
Snapshot ==
    [observedElements |-> observedElements,
     cachedValues |-> cachedValues,
     style |-> style,
     listeners |-> listeners,
     peer |-> peer]

\* The history of one operation: the instance it was called on, what it was
\* called with, the state it found, what getComputedStyle returned if it was
\* asked, the callback invocations it made, the operations the callback
\* called, and whether it ended by throwing.
LastRecord(op, target, computedStyle, w) ==
    [this |-> "observer",
     op |-> op,
     target |-> target,
     pre |-> Snapshot,
     computedStyle |-> IF w.queried = << >> THEN EmptyObject
                       ELSE computedStyle,
     queried |-> w.queried,
     calls |-> w.calls,
     nested |-> w.nested,
     thrown |-> w.thrown]

Commit(w) ==
    /\ observedElements' = w.observedElements
    /\ cachedValues' = w.cachedValues
    /\ style' = w.style
    /\ listeners' = w.listeners
    /\ peer' = w.peer

\* The elements detached and not attached again since, once an operation
\* that attached the given elements has led to w.
FormerlyObserved(w, attached) ==
    (formerlyObserved \cup SetMembers(observedElements) \cup attached
         \cup {w.nested[i].element :
                   i \in {j \in 1 .. Len(w.nested) :
                              w.nested[j].op = "attach"}})
        \ SetMembers(w.observedElements)

\* Which elements carry declarations of their own before the observer
\* touches them: the odd-numbered ones.
InitialStyle ==
    [e \in Elements |-> IF e % 2 = 1 THEN UserDeclarations
                        ELSE NoDeclarations]

\* The fields of a second instance after its construction, and its listeners.
NewPeer ==
    [observedElements |-> << >>, cachedValues |-> EmptyObject,
     listeners |-> {}]

\* The state after new CSSStyleObserver(observedVariables, callback, options),
\* for arguments drawn from the given sets, before any element is attached.
NewObserver(observedVariablesArgs, callbackArgs, optionsArgs) ==
    /\ \E observedVariablesArg \in observedVariablesArgs,
          callbackArg \in callbackArgs, options \in optionsArgs :
          LET this == constructor(observedVariablesArg, callbackArg, options)
          IN  /\ observedVariables = this.observedVariables
              /\ callback = this.callback
              /\ notificationMode = this.notificationMode
              /\ returnFormat = this.returnFormat
    /\ observedElements = << >>
    /\ cachedValues = EmptyObject
    /\ style = InitialStyle
    /\ listeners = {}
    /\ peer = NewPeer
    /\ formerlyObserved = {}
    /\ last = [this |-> "observer", op |-> "new", target |-> NoArgument,
               pre |-> [observedElements |-> << >>,
                        cachedValues |-> EmptyObject,
                        style |-> InitialStyle,
                        listeners |-> {},
                        peer |-> NewPeer],
               computedStyle |-> EmptyObject,
               queried |-> << >>, calls |-> << >>, nested |-> << >>,
               thrown |-> FALSE]

\* The callback of the base specification returns normally.
Init == NewObserver(PropertyLists, {"returns"}, Options)

\* attach(targetElement); computedStyle is what the host reports for it.
Attach(targetElement, computedStyle) ==
    LET w == attach(World, targetElement, computedStyle)
    IN  /\ Commit(w)
        /\ formerlyObserved' = FormerlyObserved(w, {targetElement})
        /\ last' = LastRecord("attach", targetElement, computedStyle, w)
        /\ UNCHANGED config

\* detach(targetElement) with an element.
Detach(targetElement) ==
    LET w == detach(World, targetElement)
    IN  /\ Commit(w)
        /\ formerlyObserved' = FormerlyObserved(w, {})
        /\ last' = LastRecord("detach", targetElement, EmptyObject, w)
        /\ UNCHANGED config

\* detach() without an argument.
DetachAll ==
    LET w == detach(World, NoArgument)
    IN  /\ Commit(w)
        /\ formerlyObserved' = FormerlyObserved(w, {})
        /\ last' = LastRecord("detachAll", NoArgument, EmptyObject, w)
        /\ UNCHANGED config

\* The host dispatches a transitionstart event whose target is target; it
\* bubbles, and a listener on an element of its path runs _eventHandler with
\* it.  The handler reads nothing of the event but its target.
TransitionStart(target, computedStyle) ==
    /\ \E currentTarget \in listeners :
           SetHas(composedPath(target), currentTarget)
    /\ LET w == _handleUpdate(World, TransitionEvent(target), computedStyle)
       IN  /\ Commit(w)
           /\ formerlyObserved' = FormerlyObserved(w, {})
           /\ last' = LastRecord("transitionstart", target, computedStyle, w)
    /\ UNCHANGED config

Next ==
    \/ \E e \in Elements, cs \in ComputedStyles : Attach(e, cs)
    \/ \E e \in Elements : Detach(e)
    \/ DetachAll
    \/ \E t \in Elements, cs \in ComputedStyles : TransitionStart(t, cs)

Spec == Init /\ [][Next]_vars

(***************************************************************************)
(* The scenario of one element whose properties move between several       *)
(* distinct, non-empty values.                                             *)
(***************************************************************************)
\* The element of the scenario: the root of the tree.
ScenarioElements == {e \in Elements : parentNode(e) \notin Elements}

ScenarioLists == {<<"--a">>, <<"--a", "display">>}

ScenarioValues == {"0", "1", "2"}

ScenarioComputedStyles ==
    [{observedVariables[i] : i \in 1 .. Len(observedVariables)} ->
         ScenarioValues]

InitValues == NewObserver(ScenarioLists, {"returns"}, Options)

NextValues ==
    \/ \E e \in ScenarioElements, cs \in ScenarioComputedStyles : Attach(e, cs)
    \/ \E e \in ScenarioElements : Detach(e)
    \/ DetachAll
    \/ \E t \in ScenarioElements, cs \in ScenarioComputedStyles :
           TransitionStart(t, cs)

SpecValues == InitValues /\ [][NextValues]_vars

(***************************************************************************)
(* Transition events with their property name.                            *)
(***************************************************************************)
\* TransitionEvent.propertyName: a name the observer may track, or one it
\* never tracks.
EventPropertyNames == {"display", "opacity"}

\* The host dispatches a transitionstart event for propertyName on target.
\* _handleUpdate is the listener; it reads e.target and nothing else.
TransitionStartFor(target, propertyName, computedStyle) ==
    /\ \E currentTarget \in listeners :
           SetHas(composedPath(target), currentTarget)
    /\ LET e == TransitionEvent(target) @@ ("propertyName" :> propertyName)
           w == _handleUpdate(World, e, computedStyle)
       IN  /\ Commit(w)
           /\ formerlyObserved' = FormerlyObserved(w, {})
           /\ last' = LastRecord("transitionstart", target, computedStyle, w)
                           @@ ("propertyName" :> e.propertyName)
    /\ UNCHANGED config

InitPropertyName == NewObserver(ScenarioLists, {"returns"}, Options)

NextPropertyName ==
    \/ \E e \in Elements, cs \in ComputedStyles : Attach(e, cs)
    \/ \E e \in Elements : Detach(e)
    \/ DetachAll
    \/ \E t \in Elements, pn \in EventPropertyNames, cs \in ComputedStyles :
           TransitionStartFor(t, pn, cs)

SpecPropertyName == InitPropertyName /\ [][NextPropertyName]_vars

(***************************************************************************)
(* An observer constructed without options.                                *)
(***************************************************************************)
\* options = {}: neither notificationMode nor returnFormat is given.
NoOptions == [notificationMode |-> Undefined, returnFormat |-> Undefined]

InitDefaults == NewObserver(PropertyLists, {"returns"}, {NoOptions})

SpecDefaults == InitDefaults /\ [][Next]_vars

(***************************************************************************)
(* An observer whose callback throws.                                      *)
(***************************************************************************)
InitThrow == NewObserver(PropertyLists, {"throws"}, Options)

SpecThrow == InitThrow /\ [][Next]_vars

(***************************************************************************)
(* An observer whose callback calls back into the observer.                *)
(***************************************************************************)
ReentrantCallbacks == {"detach(element)", "detach()", "attach(parentNode)"}

\* Both options given, each a member of its enum.
GivenOptions ==
    [notificationMode :
         {NotificationMode.CHANGED_ONLY, NotificationMode.ALL},
     returnFormat : {ReturnFormat.VALUE_ONLY, ReturnFormat.OBJECT}]

InitReentrant == NewObserver(ScenarioLists, ReentrantCallbacks, GivenOptions)

SpecReentrant == InitReentrant /\ [][Next]_vars

(***************************************************************************)
(* Two observers, constructed with the same arguments, on the same page.   *)
(***************************************************************************)
\* The fields and the listeners of the first instance.
Observer ==
    [observedElements |-> observedElements, cachedValues |-> cachedValues,
     listeners |-> listeners]

\* The state an operation of the second instance works on: this is the
\* second instance and its peer is the first; the elements' declarations are
\* the same objects for both.
PeerWorld ==
    [observedElements |-> peer.observedElements,
     cachedValues |-> peer.cachedValues,
     style |-> style,
     listeners |-> peer.listeners,
     peer |-> Observer,
     calls |-> << >>,
     queried |-> << >>,
     nested |-> << >>,
     thrown |-> FALSE]

PeerCommit(w) ==
    /\ observedElements' = w.peer.observedElements
    /\ cachedValues' = w.peer.cachedValues
    /\ style' = w.style
    /\ listeners' = w.peer.listeners
    /\ peer' = [observedElements |-> w.observedElements,
                cachedValues |-> w.cachedValues,
                listeners |-> w.listeners]

\* attach(targetElement) on the second instance.
PeerAttach(targetElement, computedStyle) ==
    LET w == attach(PeerWorld, targetElement, computedStyle)
    IN  /\ PeerCommit(w)
        /\ last' = [LastRecord("attach", targetElement, computedStyle, w)
                        EXCEPT !.this = "peer"]
        /\ UNCHANGED <<config, formerlyObserved>>

\* detach(targetElement) on the second instance.
PeerDetach(targetElement) ==
    LET w == detach(PeerWorld, targetElement)
    IN  /\ PeerCommit(w)
        /\ last' = [LastRecord("detach", targetElement, EmptyObject, w)
                        EXCEPT !.this = "peer"]
        /\ UNCHANGED <<config, formerlyObserved>>

\* detach() on the second instance.
PeerDetachAll ==
    LET w == detach(PeerWorld, NoArgument)
    IN  /\ PeerCommit(w)
        /\ last' = [LastRecord("detachAll", NoArgument, EmptyObject, w)
                        EXCEPT !.this = "peer"]
        /\ UNCHANGED <<config, formerlyObserved>>

\* A transitionstart event reaches a listener of the second instance.
PeerTransitionStart(target, computedStyle) ==
    /\ \E currentTarget \in peer.listeners :
           SetHas(composedPath(target), currentTarget)
    /\ LET w == _handleUpdate(PeerWorld, TransitionEvent(target),
                              computedStyle)
       IN  /\ PeerCommit(w)
           /\ last' = [LastRecord("transitionstart", target, computedStyle,
                                  w) EXCEPT !.this = "peer"]
    /\ UNCHANGED <<config, formerlyObserved>>

PeerLists == {<<"--a">>}

\* The second instance is used on one element, the root of the tree, which
\* the first instance may observe too.
PeerElements == ScenarioElements

InitPeer == NewObserver(PeerLists, {"returns"}, GivenOptions)

NextPeer ==
    \/ \E e \in Elements, cs \in ComputedStyles : Attach(e, cs)
    \/ \E e \in Elements : Detach(e)
    \/ DetachAll
    \/ \E t \in Elements, cs \in ComputedStyles : TransitionStart(t, cs)
    \/ \E e \in PeerElements, cs \in ComputedStyles : PeerAttach(e, cs)
    \/ \E e \in PeerElements : PeerDetach(e)
    \/ PeerDetachAll
    \/ \E t \in PeerElements, cs \in ComputedStyles :
           PeerTransitionStart(t, cs)

SpecPeer == InitPeer /\ [][NextPeer]_vars

(***************************************************************************)
(* Transition events with the element whose listener receives them.        *)
(***************************************************************************)
\* The host dispatches a transitionstart event whose target is target to
\* the listener on currentTarget, an element of the event's path.
\* computedStyle is what the host reports for the element _handleUpdate
\* asks about.
TransitionStartAt(currentTarget, target, computedStyle) ==
    /\ currentTarget \in listeners
    /\ SetHas(composedPath(target), currentTarget)
    /\ LET e == TransitionEvent(target) @@ ("currentTarget" :> currentTarget)
           w == _handleUpdate(World, e, computedStyle)
       IN  /\ Commit(w)
           /\ formerlyObserved' = FormerlyObserved(w, {})
           /\ last' = LastRecord("transitionstart", target, computedStyle, w)
                           @@ ("currentTarget" :> e.currentTarget)
    /\ UNCHANGED config

InitBubbling == NewObserver(ScenarioLists, {"returns"}, GivenOptions)

NextBubbling ==
    \/ \E e \in Elements, cs \in ComputedStyles : Attach(e, cs)
    \/ \E e \in Elements : Detach(e)
    \/ DetachAll
    \/ \E c \in Elements, t \in Elements, cs \in ComputedStyles :
           TransitionStartAt(c, t, cs)

SpecBubbling == InitBubbling /\ [][NextBubbling]_vars

(***************************************************************************)
(* An observer constructed with an option value that is no member of its   *)
(* enum (a caller outside TypeScript).                                     *)
(***************************************************************************)
Unrecognized == "unrecognized"

\* Both options unrecognized, or one of them next to the non-default member
\* of the other enum.
UnrecognizedOptions ==
    {[notificationMode |-> Unrecognized, returnFormat |-> Unrecognized],
     [notificationMode |-> Unrecognized, returnFormat |-> ReturnFormat.OBJECT],
     [notificationMode |-> NotificationMode.ALL,
      returnFormat |-> Unrecognized]}

InitUnrecognized ==
    NewObserver(PropertyLists, {"returns"}, UnrecognizedOptions)

SpecUnrecognized == InitUnrecognized /\ [][Next]_vars

(***************************************************************************)
(* Vocabulary of the claims.                                               *)
(***************************************************************************)
Tracked == {observedVariables[i] : i \in 1 .. Len(observedVariables)}

Registered(e) == SetHas(observedElements, e)

WasRegistered(e) == SetHas(last.pre.observedElements, e)

\* Neither declaration of the tracking style is left on the element.
NoTransitionDeclarations(e) ==
    /\ ~Has(style[e], "transition")
    /\ ~Has(style[e], "transition-behavior")

\* The operation left the observer and the host exactly as it found them.
NothingChanged ==
    /\ observedElements = last.pre.observedElements
    /\ cachedValues = last.pre.cachedValues
    /\ style = last.pre.style
    /\ listeners = last.pre.listeners

\* Element e is, for the observer and the host, as the operation found it.
ElementUntouched(e) ==
    /\ Registered(e) <=> WasRegistered(e)
    /\ Has(cachedValues, e) <=> Has(last.pre.cachedValues, e)
    /\ Has(cachedValues, e) => cachedValues[e] = last.pre.cachedValues[e]
    /\ style[e] = last.pre.style[e]
    /\ e \in listeners <=> e \in last.pre.listeners

\* An update cycle ran (it got as far as querying the computed style).
CycleRan == last.queried # << >>

\* The target's cache entry as the cycle found it: the fresh entry attach
\* has just stored, or the entry the element had.
CacheAtCycleStart ==
    IF last.op = "attach" THEN EmptyObject
    ELSE last.pre.cachedValues[last.target]

FirstAttach == last.op = "attach" /\ ~WasRegistered(last.target)

(***************************************************************************)
(* C1.  With a non-empty property list, attach(e) on an element that is    *)
(* not registered invokes the callback exactly once before it returns,     *)
(* and at that moment e is registered, has a cache entry, carries the      *)
(* tracking style and has the transitionstart listener.                    *)
(***************************************************************************)
C1_InitialCallback ==
    (FirstAttach /\ observedVariables # << >>) =>
        /\ Len(last.calls) = 1
        /\ last.calls[1].element = last.target
        /\ last.calls[1].registered
        /\ last.calls[1].cached
        /\ last.calls[1].styled
        /\ last.calls[1].subscribed

C1_Witness ==
    /\ FirstAttach
    /\ observedVariables # << >>
    /\ Len(last.calls) = 1
    /\ last.pre.style[last.target] = UserDeclarations
    /\ last.pre.observedElements # << >>

\* What the callback is told about property p in its one invocation: the
\* change entry (OBJECT format carries it, VALUE_ONLY only its value).
ReportedFresh(p) ==
    /\ Len(last.calls) = 1
    /\ Has(last.calls[1].argument, p)
    /\ returnFormat = ReturnFormat.OBJECT =>
           /\ last.calls[1].argument[p].previousValue = Undefined
           /\ last.calls[1].argument[p].changed = TRUE

(***************************************************************************)
(* C2.  The first update cycle after attach(e) reports every tracked       *)
(* property with previousValue undefined and changed = TRUE, in both       *)
(* notification modes.                                                     *)
(***************************************************************************)
C2_FirstCycle == FirstAttach => \A p \in Tracked : ReportedFresh(p)

C4_NoCallbackAfterDetach ==
    (last.op = "transitionstart" /\ last.target \in formerlyObserved) =>
        /\ last.calls = << >>
        /\ ~CycleRan
        /\ cachedValues = last.pre.cachedValues
        /\ ~Has(cachedValues, last.target)

C4_Witness ==
    /\ last.op = "transitionstart"
    /\ last.target \in formerlyObserved
    /\ observedVariables # << >>
    /\ \E c \in listeners : SetHas(composedPath(last.target), c)

(***************************************************************************)
(* C5.  detach() without an argument detaches every registered element:    *)
(* afterwards no element is registered, and each element that was has      *)
(* lost the transition declarations, the listener and its cache entry; no  *)
(* listener is left through which a later event could reach the handler.   *)
(***************************************************************************)
C5_DetachAll ==
    last.op = "detachAll" =>
        /\ observedElements = << >>
        /\ \A e \in SetMembers(last.pre.observedElements) :
               /\ NoTransitionDeclarations(e)
               /\ e \notin listeners
               /\ ~Has(cachedValues, e)
        /\ listeners = {}
        /\ last.calls = << >>

C5_Witness ==
    /\ last.op = "detachAll"
    /\ Len(last.pre.observedElements) >= 2
    /\ observedElements = << >>

(***************************************************************************)
(* C6.  detach(e) for a registered e removes e's transition declarations,  *)
(* listener, membership and cache entry, and leaves every other element    *)
(* as it was.                                                              *)
(***************************************************************************)
C6_DetachOnlyTarget ==
    (last.op = "detach" /\ WasRegistered(last.target)) =>
        /\ ~Registered(last.target)
        /\ ~Has(cachedValues, last.target)
        /\ last.target \notin listeners
        /\ NoTransitionDeclarations(last.target)
        /\ \A e \in Elements \ {last.target} : ElementUntouched(e)
        /\ observedElements =
               SelectSeq(last.pre.observedElements,
                         LAMBDA e : e # last.target)

C6_Witness ==
    /\ last.op = "detach"
    /\ WasRegistered(last.target)
    /\ \E e \in Elements \ {last.target} :
           /\ Registered(e)
           /\ HasTrackingStyle(style[e])
           /\ e \in listeners
           /\ \E p \in Tracked : cachedValues[e][p] # ""

(***************************************************************************)
(* C7.  detach(e) for an e that is not registered is a no-op: membership,  *)
(* cache, listeners and every style declaration, e's own included, are     *)
(* unchanged and the callback is not invoked.                              *)
(***************************************************************************)
C7_DetachUnregistered ==
    (last.op = "detach" /\ ~WasRegistered(last.target)) =>
        /\ NothingChanged
        /\ last.calls = << >>

C7_Witness ==
    /\ last.op = "detach"
    /\ ~WasRegistered(last.target)
    /\ style[last.target] = UserDeclarations
    /\ observedElements # << >>

(***************************************************************************)
(* C8.  In CHANGED_ONLY mode, an update cycle for e in which every         *)
(* tracked property's computed value equals e's cached value invokes no    *)
(* callback.                                                               *)
(***************************************************************************)
C8_ChangedOnlySuppression ==
    (/\ notificationMode = NotificationMode.CHANGED_ONLY
     /\ CycleRan
     /\ \A p \in Tracked :
            getPropertyValue(last.computedStyle, p) =
                Get(CacheAtCycleStart, p)) =>
        last.calls = << >>

C8_Witness ==
    /\ notificationMode = NotificationMode.CHANGED_ONLY
    /\ last.op = "transitionstart"
    /\ CycleRan
    /\ Cardinality(Tracked) = 2
    /\ \A p \in Tracked :
           getPropertyValue(last.computedStyle, p) = Get(CacheAtCycleStart, p)
    /\ last.calls = << >>

(***************************************************************************)
(* C9.  In ALL mode, every update cycle that runs for a registered element *)
(* invokes the callback with an entry for every tracked property, whether  *)
(* or not its value changed.                                               *)
(***************************************************************************)
CallbackGotEveryProperty ==
    /\ Len(last.calls) = 1
    /\ DOMAIN last.calls[1].argument = Tracked
    /\ DOMAIN last.calls[1].changes = Tracked
    /\ last.calls[1].element = last.target

\* C9 as claimed: for every property list.
C9_AllModeComplete ==
    (notificationMode = NotificationMode.ALL /\ CycleRan) =>
        CallbackGotEveryProperty

\* C9 as amended: for a non-empty property list.
C9_AllModeCompleteNonEmpty ==
    (/\ notificationMode = NotificationMode.ALL
     /\ CycleRan
     /\ observedVariables # << >>) =>
        CallbackGotEveryProperty

C9_Witness ==
    /\ notificationMode = NotificationMode.ALL
    /\ last.op = "transitionstart"
    /\ CycleRan
    /\ Cardinality(Tracked) = 2
    /\ Len(last.calls) = 1
    /\ \A p \in Tracked : last.calls[1].changes[p].changed = FALSE

(***************************************************************************)
(* C10.  Whatever the sequence of attach, detach and transitionstart, the  *)
(* callback is never invoked with an empty mapping, and the keys of every  *)
(* mapping it receives are configured properties.                          *)
(***************************************************************************)
C10_PayloadKeys ==
    \A i \in 1 .. Len(last.calls) :
        /\ DOMAIN last.calls[i].argument # {}
        /\ DOMAIN last.calls[i].argument \subseteq Tracked

C10_Witness ==
    /\ Len(last.calls) = 1
    /\ DOMAIN last.calls[1].argument # Tracked
    /\ DOMAIN last.calls[1].argument # {}

(***************************************************************************)
(* C11.  The keys of a callback payload are, in CHANGED_ONLY mode, exactly *)
(* the tracked properties whose computed value differs from the value the  *)
(* element's cache held when the cycle started (a property never cached    *)
(* differs), and in ALL mode exactly the tracked properties.               *)
(***************************************************************************)
ChangedSet ==
    {p \in Tracked :
        getPropertyValue(last.computedStyle, p) # Get(CacheAtCycleStart, p)}

C11_PayloadKeySet ==
    \A i \in 1 .. Len(last.calls) :
        /\ notificationMode = NotificationMode.CHANGED_ONLY =>
               DOMAIN last.calls[i].argument = ChangedSet
        /\ notificationMode = NotificationMode.ALL =>
               DOMAIN last.calls[i].argument = Tracked

C11_Witness ==
    /\ notificationMode = NotificationMode.CHANGED_ONLY
    /\ last.op = "transitionstart"
    /\ Len(last.calls) = 1
    /\ Cardinality(Tracked) = 2
    /\ Cardinality(DOMAIN last.calls[1].argument) = 1
    /\ \E p \in Tracked :
           /\ p \notin DOMAIN last.calls[1].argument
           /\ getPropertyValue(last.computedStyle, p) = ""

(***************************************************************************)
(* C12.  From the same change entries, the VALUE_ONLY format passes the    *)
(* mapping property -> current value and the OBJECT format the mapping     *)
(* property -> {value, previousValue, changed, element}, with the same     *)
(* keys; for the tracked property --x going from "1" to "2" on e the       *)
(* entries are "2" and {value "2", previousValue "1", changed true,        *)
(* element e}.                                                             *)
(***************************************************************************)
C12_Formats ==
    \A i \in 1 .. Len(last.calls) :
        LET c == last.calls[i]
            valueOnly ==
                formatter(_getFormatter(ReturnFormat.VALUE_ONLY), c.changes)
            object == formatter(_getFormatter(ReturnFormat.OBJECT), c.changes)
        IN  /\ DOMAIN valueOnly = DOMAIN object
            /\ DOMAIN valueOnly # {}
            /\ \A p \in DOMAIN valueOnly :
                   /\ valueOnly[p] = getPropertyValue(last.computedStyle, p)
                   /\ DOMAIN object[p] =
                          {"value", "previousValue", "changed", "element"}
                   /\ object[p].value = valueOnly[p]
                   /\ object[p].changed =
                          (object[p].value # object[p].previousValue)
                   /\ object[p].element = last.target
                   /\ (/\ observedVariables = <<p>>
                       /\ Get(CacheAtCycleStart, p) = "1"
                       /\ getPropertyValue(last.computedStyle, p) = "2") =>
                          /\ valueOnly[p] = "2"
                          /\ object[p] = [value |-> "2", previousValue |-> "1",
                                          changed |-> TRUE,
                                          element |-> last.target]
            /\ returnFormat = ReturnFormat.VALUE_ONLY =>
                   /\ c.formatter = Formatters.VALUE_ONLY
                   /\ c.argument = valueOnly
            /\ returnFormat = ReturnFormat.OBJECT =>
                   /\ c.formatter = Formatters.OBJECT
                   /\ c.argument = object

C12_Witness ==
    /\ returnFormat = ReturnFormat.OBJECT
    /\ last.op = "transitionstart"
    /\ observedVariables = <<"--a">>
    /\ Len(last.calls) = 1
    /\ last.calls[1].argument =
           ("--a" :> [value |-> "2", previousValue |-> "1", changed |-> TRUE,
                      element |-> last.target])

(***************************************************************************)
(* C13.  An observer constructed without notificationMode and without      *)
(* returnFormat behaves as CHANGED_ONLY and OBJECT: every callback payload  *)
(* holds the changed properties only, and its values are the detail        *)
(* records, not bare strings.                                              *)
(***************************************************************************)
C13_Defaults ==
    \A i \in 1 .. Len(last.calls) :
        /\ DOMAIN last.calls[i].argument = ChangedSet
        /\ last.calls[i].formatter = Formatters.OBJECT
        /\ last.calls[i].argument = last.calls[i].changes

(***************************************************************************)
(* C14.  A returnFormat that is no member of the enum raises no error and  *)
(* gives VALUE_ONLY payloads; a notificationMode that is no member of the  *)
(* enum raises no error and gives CHANGED_ONLY behaviour: a cycle calls    *)
(* back exactly when some property changed, with the changed properties    *)
(* only.  This holds from construction on, in every cycle.                 *)
(***************************************************************************)
C14_UnrecognizedOptions ==
    /\ ~last.thrown
    /\ returnFormat \notin {ReturnFormat.VALUE_ONLY, ReturnFormat.OBJECT} =>
           \A i \in 1 .. Len(last.calls) :
               /\ last.calls[i].formatter = Formatters.VALUE_ONLY
               /\ \A p \in DOMAIN last.calls[i].argument :
                      last.calls[i].argument[p] =
                          getPropertyValue(last.computedStyle, p)
    /\ notificationMode \notin
           {NotificationMode.CHANGED_ONLY, NotificationMode.ALL} =>
           /\ \A i \in 1 .. Len(last.calls) :
                  DOMAIN last.calls[i].argument = ChangedSet
           /\ CycleRan => Len(last.calls) = (IF ChangedSet = {} THEN 0 ELSE 1)

C14_Witness ==
    /\ returnFormat = Unrecognized
    /\ notificationMode = Unrecognized
    /\ last.op = "transitionstart"
    /\ Cardinality(Tracked) = 2
    /\ Len(last.calls) = 1
    /\ Cardinality(DOMAIN last.calls[1].argument) = 1
    /\ \E p \in Tracked : last.calls[1].argument = p :> "1"

(***************************************************************************)
(* C15.  With several elements attached to one observer, an update cycle   *)
(* for element A leaves the cache entry of every other element as it was   *)
(* and reports element = A and a previousValue taken from A's entry (what  *)
(* the entry held when the cycle started or, for a name listed twice, what *)
(* the cycle has just stored in it), whatever the order of the events on   *)
(* the elements.                                                           *)
(***************************************************************************)
ListedTwice(p) ==
    \E i, j \in 1 .. Len(observedVariables) :
        i # j /\ observedVariables[i] = p /\ observedVariables[j] = p

C15_CacheIsolation ==
    CycleRan =>
        /\ \A b \in Elements \ {last.target} :
               /\ Has(cachedValues, b) <=> Has(last.pre.cachedValues, b)
               /\ Has(cachedValues, b) =>
                      cachedValues[b] = last.pre.cachedValues[b]
        /\ \A i \in 1 .. Len(last.calls) :
               /\ last.calls[i].element = last.target
               /\ \A p \in DOMAIN last.calls[i].changes :
                      LET entry == last.calls[i].changes[p]
                      IN  /\ entry.element = last.target
                          /\ \/ entry.previousValue =
                                     Get(CacheAtCycleStart, p)
                             \/ /\ ListedTwice(p)
                                /\ entry.previousValue = entry.value
                                /\ entry.value = cachedValues[last.target][p]

C15_Witness ==
    /\ last.op = "transitionstart"
    /\ Len(last.calls) = 1
    /\ \E b \in Elements \ {last.target}, p \in Tracked :
           /\ Has(cachedValues, b)
           /\ Has(last.calls[1].changes, p)
           /\ ~ListedTwice(p)
           /\ last.calls[1].changes[p].previousValue # cachedValues[b][p]
           /\ last.calls[1].changes[p].value = cachedValues[b][p]

(***************************************************************************)
(* C16.  A transitionstart event on a registered element whose property    *)
(* name is not a tracked property invokes no callback and changes no cache *)
(* entry, even if the computed value of a tracked property differs from    *)
(* the cached one at that moment.                                          *)
(***************************************************************************)
C16_UntrackedPropertyIgnored ==
    (/\ last.op = "transitionstart"
     /\ WasRegistered(last.target)
     /\ last.propertyName \notin Tracked) =>
        /\ last.calls = << >>
        /\ cachedValues = last.pre.cachedValues

(***************************************************************************)
(* C17.  With properties ['--a'], CHANGED_ONLY and OBJECT: attach(e) with  *)
(* --a = "0" calls back once with {value "0", previousValue undefined,     *)
(* changed true, element e}; a transitionstart once --a is "1" calls back  *)
(* once with {value "1", previousValue "0", changed true, element e}; a    *)
(* further transitionstart with --a still "1" calls back not at all.       *)
(***************************************************************************)
C17_Entry(value, previousValue) ==
    "--a" :> [value |-> value, previousValue |-> previousValue,
              changed |-> TRUE, element |-> last.target]

C17_EndToEnd ==
    (/\ observedVariables = <<"--a">>
     /\ notificationMode = NotificationMode.CHANGED_ONLY
     /\ returnFormat = ReturnFormat.OBJECT) =>
        /\ FirstAttach => CycleRan
        /\ (/\ FirstAttach
            /\ getPropertyValue(last.computedStyle, "--a") = "0") =>
               /\ Len(last.calls) = 1
               /\ last.calls[1].argument = C17_Entry("0", Undefined)
               /\ cachedValues[last.target] = ("--a" :> "0")
        /\ (/\ last.op = "transitionstart"
            /\ WasRegistered(last.target)
            /\ last.pre.cachedValues[last.target] = ("--a" :> "0")
            /\ getPropertyValue(last.computedStyle, "--a") = "1") =>
               /\ Len(last.calls) = 1
               /\ last.calls[1].argument = C17_Entry("1", "0")
               /\ cachedValues[last.target] = ("--a" :> "1")
        /\ (/\ last.op = "transitionstart"
            /\ WasRegistered(last.target)
            /\ last.pre.cachedValues[last.target] = ("--a" :> "1")
            /\ getPropertyValue(last.computedStyle, "--a") = "1") =>
               /\ last.calls = << >>
               /\ cachedValues[last.target] = ("--a" :> "1")

C17_Witness ==
    /\ observedVariables = <<"--a">>
    /\ notificationMode = NotificationMode.CHANGED_ONLY
    /\ returnFormat = ReturnFormat.OBJECT
    /\ last.op = "transitionstart"
    /\ WasRegistered(last.target)
    /\ last.pre.cachedValues[last.target] = ("--a" :> "1")
    /\ last.computedStyle = ("--a" :> "1")
    /\ last.calls = << >>

(***************************************************************************)
(* C18.  Nothing of a registration survives detach: an attach(e) after     *)
(* attach(e) and detach(e) runs a fresh first cycle that reports every     *)
(* tracked property with previousValue undefined and changed = TRUE, also  *)
(* when the computed values are those cached before the detach.            *)
(***************************************************************************)
C18_ReattachFresh ==
    [][(/\ last'.op = "attach"
        /\ last'.target \in formerlyObserved) =>
           (\A p \in Tracked : ReportedFresh(p))']_vars

(***************************************************************************)
(* C19.  An exception the callback throws is not caught by the observer:   *)
(* the operation that ran the cycle (attach for the first cycle, the       *)
(* transitionstart listener for a later one) ends by throwing it; an       *)
(* operation that does not invoke the callback throws nothing.             *)
(***************************************************************************)
C19_CallbackExceptionPropagates ==
    callback = "throws" =>
        /\ last.calls # << >> =>
               /\ last.thrown
               /\ last.op \in {"attach", "transitionstart"}
        /\ last.calls = << >> => ~last.thrown

C19_Witness ==
    /\ callback = "throws"
    /\ last.op = "attach"
    /\ Len(last.calls) = 1
    /\ last.thrown
    /\ Registered(last.target)

(***************************************************************************)
(* C20.  attach sets the element's 'transition' declaration to the terms   *)
(* '<property> 0.001ms step-start', one for every tracked property in the  *)
(* configured order, joined by ', ', and its 'transition-behavior'         *)
(* declaration to 'allow-discrete'.                                        *)
(***************************************************************************)
RECURSIVE C20_Terms(_)
C20_Terms(n) ==
    IF n = 0 THEN ""
    ELSE (IF n = 1 THEN "" ELSE C20_Terms(n - 1) \o ", ")
             \o observedVariables[n] \o " 0.001ms step-start"

C20_TrackingStyle ==
    FirstAttach =>
        LET declarations == style[last.target]
        IN  /\ getPropertyValue(declarations, "transition") =
                   C20_Terms(Len(observedVariables))
            /\ getPropertyValue(declarations, "transition-behavior") =
                   "allow-discrete"
            /\ observedVariables = <<"--a">> =>
                   declarations["transition"] = "--a 0.001ms step-start"
            /\ observedVariables = <<"--a", "display">> =>
                   declarations["transition"] =
                       "--a 0.001ms step-start, display 0.001ms step-start"

C20_Witness ==
    /\ FirstAttach
    /\ observedVariables = <<"--a", "display">>
    /\ last.pre.style[last.target] = UserDeclarations
    /\ style[last.target] =
           ("transition" :>
                "--a 0.001ms step-start, display 0.001ms step-start")
               @@ ("transition-behavior" :> "allow-discrete")

(***************************************************************************)
(* C21.  attach overwrites the 'transition' and 'transition-behavior'      *)
(* declarations the element had, and detach removes both instead of        *)
(* restoring them: an element that was attached and then detached has      *)
(* neither declaration, whatever it had before the attach.                 *)
(***************************************************************************)
C21_StyleNotRestored ==
    /\ FirstAttach =>
           /\ getPropertyValue(style[last.target], "transition") #
                  getPropertyValue(UserDeclarations, "transition")
           /\ getPropertyValue(style[last.target], "transition-behavior") #
                  getPropertyValue(UserDeclarations, "transition-behavior")
    /\ \A e \in formerlyObserved : NoTransitionDeclarations(e)

C21_Witness ==
    /\ last.op = "detach"
    /\ last.target \in formerlyObserved
    /\ InitialStyle[last.target] = UserDeclarations
    /\ style[last.target] = NoDeclarations
    /\ \E e \in Elements : Registered(e)

(***************************************************************************)
(* C22.  In every reachable state an element has a cache entry if and only *)
(* if it is registered.                                                    *)
(***************************************************************************)
C22_CacheIffRegistered ==
    \A e \in Elements : Has(cachedValues, e) <=> Registered(e)

C22_Witness ==
    /\ \E e \in Elements : Registered(e) /\ cachedValues[e] # EmptyObject
    /\ \E e \in formerlyObserved : ~Has(cachedValues, e)

(***************************************************************************)
(* C23.  With attach and detach as the only writers of the transition      *)
(* declarations, in every reachable state an element carries the tracking  *)
(* style (transition set to the tracked terms, transition-behavior set to  *)
(* allow-discrete) if and only if it is registered.                        *)
(***************************************************************************)
CarriesTrackingStyle(e) ==
    /\ getPropertyValue(style[e], "transition") =
           C20_Terms(Len(observedVariables))
    /\ getPropertyValue(style[e], "transition-behavior") = "allow-discrete"

C23_StyleIffRegistered ==
    \A e \in Elements : CarriesTrackingStyle(e) <=> Registered(e)

C23_Witness ==
    /\ observedVariables # << >>
    /\ \E e \in Elements : Registered(e) /\ CarriesTrackingStyle(e)
    /\ \E e \in Elements :
           /\ ~Registered(e)
           /\ e \notin formerlyObserved
           /\ style[e] = UserDeclarations

(***************************************************************************)
(* C24.  In every reachable state the number of transitionstart            *)
(* subscriptions of the observer's handler on an element is 1 if the       *)
(* element is registered and 0 otherwise, across every sequence of attach  *)
(* and detach.                                                             *)
(***************************************************************************)
SubscriptionCount(e) == Cardinality({c \in listeners : c = e})

C24_OneSubscription ==
    \A e \in Elements :
        SubscriptionCount(e) = (IF Registered(e) THEN 1 ELSE 0)

C24_Witness ==
    /\ last.op = "attach"
    /\ last.target \in last.pre.listeners
    /\ SubscriptionCount(last.target) = 1
    /\ \E e \in formerlyObserved : SubscriptionCount(e) = 0

(***************************************************************************)
(* C25.  After every update cycle that ran for a registered element e,     *)
(* whether or not the callback was invoked and in either notification      *)
(* mode, e's cache entry holds for every tracked property the computed     *)
(* value read in that cycle, and nothing else.                             *)
(***************************************************************************)
C25_CacheHoldsComputed ==
    CycleRan =>
        /\ Has(cachedValues, last.target)
        /\ DOMAIN cachedValues[last.target] = Tracked
        /\ \A p \in Tracked :
               cachedValues[last.target][p] =
                   getPropertyValue(last.computedStyle, p)

C25_Witness ==
    /\ last.op = "transitionstart"
    /\ CycleRan
    /\ notificationMode = NotificationMode.CHANGED_ONLY
    /\ Cardinality(Tracked) = 2
    /\ cachedValues[last.target] # last.pre.cachedValues[last.target]
    /\ \E p \in Tracked :
           cachedValues[last.target][p] =
               last.pre.cachedValues[last.target][p]

(***************************************************************************)
(* C26.  The changed flag of a reported entry equals                       *)
(* (value !== previousValue): in CHANGED_ONLY mode every reported entry    *)
(* has changed = TRUE, and in ALL mode an entry has changed = FALSE        *)
(* exactly when the computed value equals the value cached by the          *)
(* previous cycle.                                                         *)
(***************************************************************************)
C26_ChangedFlag ==
    \A i \in 1 .. Len(last.calls) :
        \A p \in DOMAIN last.calls[i].changes :
            LET entry == last.calls[i].changes[p]
            IN  /\ entry.changed = (entry.value # entry.previousValue)
                /\ notificationMode = NotificationMode.CHANGED_ONLY =>
                       entry.changed = TRUE
                /\ notificationMode = NotificationMode.ALL =>
                       (entry.changed = FALSE <=>
                            getPropertyValue(last.computedStyle, p) =
                                Get(CacheAtCycleStart, p))

(***************************************************************************)
(* C27.  'Never observed' differs from 'observed with the empty string':   *)
(* in the first cycle a tracked property whose computed value is "" is     *)
(* reported with previousValue undefined and changed = TRUE; in a later    *)
(* cycle in which the value is still "" it is reported as unchanged (not   *)
(* reported in CHANGED_ONLY mode; previousValue "" and changed = FALSE in  *)
(* ALL mode).                                                              *)
(***************************************************************************)
C27_EmptyStringIsAValue ==
    \A p \in Tracked :
        /\ (/\ FirstAttach
            /\ getPropertyValue(last.computedStyle, p) = "") =>
               /\ Len(last.calls) = 1
               /\ Has(last.calls[1].argument, p)
               /\ returnFormat = ReturnFormat.OBJECT =>
                      /\ last.calls[1].argument[p].value = ""
                      /\ last.calls[1].argument[p].previousValue = Undefined
                      /\ last.calls[1].argument[p].changed = TRUE
        /\ (/\ last.op = "transitionstart"
            /\ CycleRan
            /\ Get(last.pre.cachedValues[last.target], p) = ""
            /\ getPropertyValue(last.computedStyle, p) = "") =>
               /\ notificationMode = NotificationMode.CHANGED_ONLY =>
                      \A i \in 1 .. Len(last.calls) :
                          ~Has(last.calls[i].argument, p)
               /\ notificationMode = NotificationMode.ALL =>
                      /\ Len(last.calls) = 1
                      /\ Has(last.calls[1].argument, p)
                      /\ returnFormat = ReturnFormat.OBJECT =>
                             /\ last.calls[1].argument[p].value = ""
                             /\ last.calls[1].argument[p].previousValue = ""
                             /\ last.calls[1].argument[p].changed = FALSE

(***************************************************************************)
(* C28.  A transitionstart event whose target is not registered is ignored *)
(* entirely: the computed style is not queried, no cache entry is created  *)
(* or written, and the callback is not invoked.                            *)
(***************************************************************************)
C28_UnregisteredTargetIgnored ==
    (last.op = "transitionstart" /\ ~WasRegistered(last.target)) =>
        /\ ~CycleRan
        /\ last.calls = << >>
        /\ cachedValues = last.pre.cachedValues
        /\ ~Has(cachedValues, last.target)
        /\ NothingChanged

C28_Witness ==
    /\ last.op = "transitionstart"
    /\ ~WasRegistered(last.target)
    /\ last.target \notin formerlyObserved
    /\ observedVariables # << >>
    /\ \E c \in listeners :
           c # last.target /\ SetHas(composedPath(last.target), c)

(***************************************************************************)
(* C29.  An update cycle neither adds an element to nor removes one from   *)
(* the registered elements: a transitionstart event leaves the membership  *)
(* as it was, and attach and detach change it by their own element only.   *)
(***************************************************************************)
C29_MembershipOnlyByAttachDetach ==
    /\ last.op = "transitionstart" =>
           observedElements = last.pre.observedElements
    /\ last.op = "attach" =>
           observedElements = SetAdd(last.pre.observedElements, last.target)
    /\ last.op = "detach" =>
           observedElements = SetDelete(last.pre.observedElements, last.target)

C29_Witness ==
    /\ last.op = "transitionstart"
    /\ CycleRan
    /\ Len(last.calls) = 1
    /\ Len(observedElements) = 2
    /\ observedElements = last.pre.observedElements

(***************************************************************************)
(* C30.  The values stored in an element's cache entry are written only by *)
(* an update cycle whose target is that element: attach, detach and the    *)
(* cycles for other elements never change the values of an entry that      *)
(* continues to exist.                                                     *)
(***************************************************************************)
EntryRewritten(e) ==
    /\ Has(last.pre.cachedValues, e)
    /\ Has(cachedValues, e)
    /\ cachedValues[e] # last.pre.cachedValues[e]

C30_CacheWrittenOnlyByOwnCycle ==
    \A e \in Elements :
        EntryRewritten(e) =>
            /\ last.op = "transitionstart"
            /\ last.target = e
            /\ last.queried = <<e>>

C30_Witness ==
    /\ EntryRewritten(last.target)
    /\ \E b \in Elements \ {last.target} :
           /\ Has(cachedValues, b)
           /\ cachedValues[b] # cachedValues[last.target]

(***************************************************************************)
(* C31: update cycles never nest: a cycle, its callback invocation         *)
(* included, runs to completion before any other observer code (another    *)
(* cycle, attach or detach) runs, also when the callback itself calls      *)
(* back into the observer.  As stated: no operation runs a second cycle    *)
(* and none has an operation run inside its callback invocation.           *)
(***************************************************************************)
C31_CyclesNeverNest ==
    /\ Len(last.queried) <= 1
    /\ last.nested = << >>

\* The observer and the host as the operation left them.
StateLeft ==
    [observedElements |-> observedElements,
     cachedValues |-> cachedValues,
     style |-> style,
     listeners |-> listeners]

\* C31, amended: cycles nest only through the callback.  Every operation
\* that runs inside another ran inside one of its callback invocations, a
\* second cycle within an operation is the initial cycle of an attach the
\* callback called, and the cycle does nothing after its callback has
\* returned: the state the operation leaves is the state the callback's
\* own call left.
C31_NestingOnlyThroughCallback ==
    /\ \A i \in 1 .. Len(last.nested) :
           last.nested[i].during \in 1 .. Len(last.calls)
    /\ Len(last.queried) <=
           1 + Cardinality({i \in 1 .. Len(last.nested) :
                               last.nested[i].op = "attach"})
    /\ last.nested # << >> =>
           last.nested[Len(last.nested)].left = StateLeft

\* A transition event on a child whose callback attached the parent: the
\* parent's initial cycle ran inside the child's cycle.
C31_Witness ==
    /\ last.op = "transitionstart"
    /\ Len(last.nested) = 1
    /\ last.nested[1].op = "attach"
    /\ last.queried = <<last.target, parentNode(last.target)>>
    /\ Len(last.calls) = 2
    /\ Registered(parentNode(last.target))

(***************************************************************************)
(* C32: with two observer instances, no operation or update cycle of one   *)
(* instance changes the other instance's observed elements or cache, or    *)
(* anything else the other instance depends on: its listeners, and the     *)
(* declarations of the elements it observes.                               *)
(***************************************************************************)
\* The instance the last operation was not called on, now and as the
\* operation found it.
Bystander == IF last.this = "observer" THEN peer ELSE Observer

BystanderBefore ==
    IF last.this = "observer" THEN last.pre.peer
    ELSE [observedElements |-> last.pre.observedElements,
          cachedValues |-> last.pre.cachedValues,
          listeners |-> last.pre.listeners]

C32_NothingShared ==
    /\ Bystander = BystanderBefore
    /\ \A e \in SetMembers(Bystander.observedElements) :
           style[e] = last.pre.style[e]

\* C32, amended: no operation or cycle of one instance changes the other
\* instance's observed elements, cache or listeners; the declarations of an
\* element the other instance observes are changed by attach and detach
\* only, never by an update cycle.
C32_FieldsNotShared ==
    /\ Bystander = BystanderBefore
    /\ \A e \in SetMembers(Bystander.observedElements) :
           style[e] # last.pre.style[e] =>
               last.op \in {"attach", "detach", "detachAll"}

\* Each instance has acted while the other observed an element with a
\* populated cache: here the first detaches what the second observes.
C32_Witness ==
    /\ last.this = "observer"
    /\ last.op \in {"detach", "detachAll"}
    /\ \E e \in Elements :
           /\ WasRegistered(e)
           /\ ~Registered(e)
           /\ SetHas(peer.observedElements, e)
           /\ Has(peer.cachedValues, e)
           /\ Has(peer.cachedValues[e], "--a")
           /\ e \in peer.listeners

(***************************************************************************)
(* C37: when two instances have both attached the same element e,          *)
(* detach(e) on one of them removes e's transition and transition-behavior *)
(* declarations while the other still has e among its observed elements,  *)
(* with its cache entry and its listener.                                  *)
(***************************************************************************)
C37_DetachStripsSharedElement ==
    (/\ last.op = "detach"
     /\ SetHas(BystanderBefore.observedElements, last.target)
     /\ IF last.this = "observer" THEN WasRegistered(last.target)
        ELSE SetHas(last.pre.peer.observedElements, last.target))
        => /\ NoTransitionDeclarations(last.target)
           /\ SetHas(Bystander.observedElements, last.target)
           /\ Has(Bystander.cachedValues, last.target)
           /\ last.target \in Bystander.listeners

\* The second instance detached an element both observed.
C37_Witness ==
    /\ last.this = "peer"
    /\ last.op = "detach"
    /\ SetHas(last.pre.peer.observedElements, last.target)
    /\ WasRegistered(last.target)
    /\ Registered(last.target)
    /\ ~SetHas(peer.observedElements, last.target)
    /\ NoTransitionDeclarations(last.target)

(***************************************************************************)
(* C33: in OBJECT format the previousValue of each reported entry is the   *)
(* value read for that property in the immediately preceding update cycle  *)
(* of that element since it was attached, and undefined if there was none: *)
(* every entry of attach's initial cycle has previousValue undefined, and  *)
(* a cycle that follows a cycle of the same element reports the values     *)
(* that cycle read.                                                        *)
(***************************************************************************)
C33_PreviousValue ==
    [][\A i \in 1 .. Len(last'.calls) :
           last'.calls[i].formatter = Formatters.OBJECT =>
               \A p \in DOMAIN last'.calls[i].argument :
                   LET previousValue ==
                           last'.calls[i].argument[p].previousValue
                   IN  /\ last'.op = "attach" => previousValue = Undefined
                       /\ (/\ last'.op = "transitionstart"
                            /\ last.queried = <<last'.target>>)
                              => previousValue =
                                     getPropertyValue(last.computedStyle, p)
      ]_vars

(***************************************************************************)
(* C34: when the callback throws, the element's cache already holds every  *)
(* value read in that cycle, so that in CHANGED_ONLY mode a following      *)
(* cycle of the element that reads the same values invokes no callback:    *)
(* the failed notification is not delivered again.                         *)
(***************************************************************************)
C34_NoRedelivery ==
    [][/\ last'.thrown =>
              \A p \in Tracked :
                  Get(cachedValues'[last'.target], p) =
                      getPropertyValue(last'.computedStyle, p)
       /\ (/\ last.thrown
            /\ notificationMode = NotificationMode.CHANGED_ONLY
            /\ last'.op = "transitionstart"
            /\ last'.target = last.target
            /\ last'.computedStyle = last.computedStyle)
              => /\ last'.queried = <<last.target>>
                 /\ last'.calls = << >>
                 /\ ~last'.thrown
      ]_vars

\* A cycle in CHANGED_ONLY mode found in the cache, left there by a cycle
\* whose callback threw, the values it read, and called nothing.
C34_Witness ==
    /\ callback = "throws"
    /\ notificationMode = NotificationMode.CHANGED_ONLY
    /\ last.op = "transitionstart"
    /\ last.queried = <<last.target>>
    /\ Tracked # {}
    /\ \A p \in Tracked :
           Get(CacheAtCycleStart, p) = getPropertyValue(last.computedStyle, p)
    /\ last.calls = << >>
    /\ ~last.thrown

(***************************************************************************)
(* C35: if the callback throws during the initial cycle of attach(e),      *)
(* attach is not rolled back: e stays among the observed elements with a   *)
(* populated cache entry, the tracking style and its listener, and a       *)
(* repeated attach(e) changes nothing and does not call the callback       *)
(* again.                                                                  *)
(***************************************************************************)
C35_AttachNotRolledBack ==
    /\ (last.op = "attach" /\ last.thrown)
           => /\ Registered(last.target)
              /\ Has(cachedValues, last.target)
              /\ \A p \in Tracked :
                     Get(cachedValues[last.target], p) =
                         getPropertyValue(last.computedStyle, p)
              /\ CarriesTrackingStyle(last.target)
              /\ SubscriptionCount(last.target) = 1
    /\ (callback = "throws" /\ last.op = "attach"
            /\ WasRegistered(last.target))
           => /\ NothingChanged
              /\ last.queried = << >>
              /\ last.calls = << >>
              /\ ~last.thrown

\* attach(e) again, after the attach whose callback threw left e observed
\* with its values cached.
C35_Witness ==
    /\ callback = "throws"
    /\ last.op = "attach"
    /\ WasRegistered(last.target)
    /\ Tracked # {}
    /\ \A p \in Tracked : Has(cachedValues[last.target], p)
    /\ last.calls = << >>
    /\ formerlyObserved = {}

(***************************************************************************)
(* C36: if the callback invoked by a cycle for element e calls detach(e)   *)
(* or detach(), also during the initial cycle of attach(e), then when the  *)
(* outer call returns e is not observed and has no cache entry, no         *)
(* transition declarations and no listener: e is never left half           *)
(* registered.                                                             *)
(***************************************************************************)
C36_ReentrantDetach ==
    \A i \in 1 .. Len(last.calls) :
        callback \in {"detach(element)", "detach()"} =>
            LET e == last.calls[i].element
            IN  /\ ~Registered(e)
                /\ ~Has(cachedValues, e)
                /\ NoTransitionDeclarations(e)
                /\ e \notin listeners

\* attach(e) whose initial cycle called a callback that detached e, seen by
\* the callback as observed, cached, styled and subscribed.
C36_Witness ==
    /\ FirstAttach
    /\ callback \in {"detach(element)", "detach()"}
    /\ Len(last.calls) = 1
    /\ last.calls[1].element = last.target
    /\ last.calls[1].registered
    /\ last.calls[1].cached
    /\ last.calls[1].styled
    /\ last.calls[1].subscribed
    /\ Len(last.nested) = 1
    /\ ~Registered(last.target)
    /\ last.target \in formerlyObserved

(***************************************************************************)
(* C38: the update cycle runs against the event's origin element, not the  *)
(* element the listener was added to.  An event received by the observed   *)
(* element P whose target is another element C updates and reports C's     *)
(* cache entry only when C is observed, and is ignored when C is not; P's  *)
(* cache entry is neither read nor written.                                *)
(***************************************************************************)
C38_CycleRunsOnEventTarget ==
    (/\ last.op = "transitionstart"
     /\ last.currentTarget # last.target)
        => /\ cachedValues[last.currentTarget] =
                  last.pre.cachedValues[last.currentTarget]
           /\ \A i \in 1 .. Len(last.queried) :
                  last.queried[i] = last.target
           /\ \A i \in 1 .. Len(last.calls) :
                  /\ last.calls[i].element = last.target
                  /\ \A p \in DOMAIN last.calls[i].changes :
                         /\ last.calls[i].changes[p].element = last.target
                         /\ ~ListedTwice(p) =>
                                last.calls[i].changes[p].previousValue =
                                    Get(last.pre.cachedValues[last.target], p)
           /\ WasRegistered(last.target)
                  => /\ last.queried = <<last.target>>
                     /\ \A p \in Tracked :
                            Get(cachedValues[last.target], p) =
                                getPropertyValue(last.computedStyle, p)
                     /\ \A e \in Elements \ {last.target} :
                            ElementUntouched(e)
           /\ ~WasRegistered(last.target)
                  => /\ NothingChanged
                     /\ last.queried = << >>
                     /\ last.calls = << >>

\* The parent's listener received an event of its observed child; parent
\* and child had different values cached, the child's changed and was
\* reported, the parent's stayed.
C38_Witness ==
    /\ last.op = "transitionstart"
    /\ last.currentTarget = parentNode(last.target)
    /\ WasRegistered(last.target)
    /\ last.pre.cachedValues[last.currentTarget] #
           last.pre.cachedValues[last.target]
    /\ Len(last.calls) = 1
    /\ cachedValues[last.target] # last.pre.cachedValues[last.target]
    /\ cachedValues[last.target] = last.pre.cachedValues[last.currentTarget]

(***************************************************************************)
(* C39: detach, with or without an argument, never invokes the callback    *)
(* and never runs an update cycle; the callback is invoked only from the   *)
(* initial cycle of an attach that registers its element and from the      *)
(* handling of a transitionstart event.                                    *)
(***************************************************************************)
C39_DetachNeverCallsBack ==
    /\ last.op \in {"detach", "detachAll"}
           => /\ last.calls = << >>
              /\ last.queried = << >>
    /\ last.calls # << >>
           => \/ FirstAttach
              \/ last.op = "transitionstart"

\* detach() removed two elements whose cache entries held a value, and
\* called nothing.
C39_Witness ==
    /\ last.op = "detachAll"
    /\ Len(last.pre.observedElements) = 2
    /\ \A i \in 1 .. 2 :
           \E p \in Tracked :
               Get(last.pre.cachedValues[last.pre.observedElements[i]], p)
                   = "1"
    /\ observedElements = << >>
    /\ last.calls = << >>
    /\ last.queried = << >>

====
